---- MODULE Spec2Model ----
(***************************************************************************)
(* A model of the blist playlist library (src/src) and of its legacy       *)
(* converter (src/converter/src).                                          *)
(*                                                                         *)
(* Strings are sequences of one-character strings, byte strings are        *)
(* sequences of integers in 0..255, Option<T> is a sequence of at most one *)
(* element (None = <<>>, Some(x) = <<x>>), and serde_json maps are         *)
(* functions from key names to JSON values.                                *)
(***************************************************************************)
EXTENDS Integers, Sequences, FiniteSets, TLC

VARIABLES
    playlist,    \* the Playlist the caller holds in memory
    cwd,         \* the regular files of the process's working directory
    vres,        \* the result of the last Playlist::validate, or NotRun
    buffer,      \* the archive bytes behind the reader / writer
    origin,      \* where buffer comes from: "none", "written" or "foreign"
    wres,        \* the result of the last Playlist::write, or NotRun
    rres,        \* the result of the last Playlist::read, or NotRun
    vcover,      \* the result of the last PlaylistCover::validate, or NotRun
    vmap,        \* the index and result of the last Beatmap::validate, or NotRun
    legacy,      \* the LegacyPlaylist document handed to the converter
    cres,        \* the result of the last into_playlist, or NotRun
    document,    \* the JSON text the LegacyPlaylist was deserialized from
    fs,          \* the converter's file system: path -> file
    workers,     \* the converter's parallel conversions: source path -> state
    opt          \* the converter's command-line flags

convState == <<fs, workers, opt>>
vars == <<playlist, cwd, vres, buffer, origin, wres, rres, vcover, vmap, legacy, cres,
          document, convState>>

-----------------------------------------------------------------------------
(* Bounds of the model.                                                    *)

\* The longest list of maps of a playlist drawn from the small track set.
MaxMaps == 2

-----------------------------------------------------------------------------
(* Option and Result.                                                      *)

None == <<>>
Some(x) == <<x>>
IsSome(o) == Len(o) = 1
IsNone(o) == Len(o) = 0
Unwrap(o) == o[1]

Ok == [ok |-> TRUE]
OkV(x) == [ok |-> TRUE, v |-> x]
Err(e) == [ok |-> FALSE, err |-> e]
NotRun == [ok |-> FALSE, err |-> [variant |-> "NotRun"]]
IsOk(r) == r.ok
IsErr(r) == ~r.ok /\ r # NotRun

EmptyMap == [k \in {} |-> 0]

-----------------------------------------------------------------------------
(* src/src/utils.rs                                                        *)

PNG_MAGIC_NUMBER_LEN == 8
PNG_MAGIC_NUMBER == <<137, 80, 78, 71, 13, 10, 26, 10>>
JPG_MAGIC_NUMBER_LEN == 3
JPG_MAGIC_NUMBER == <<255, 216, 255>>

AsciiHexDigits ==
    {"0", "1", "2", "3", "4", "5", "6", "7", "8", "9",
     "a", "b", "c", "d", "e", "f", "A", "B", "C", "D", "E", "F"}

str_is_empty_or_has_newlines_NoCR(s) ==
    Len(s) = 0 \/ \E i \in 1..Len(s) : s[i] = "\n"

str_is_empty_or_has_newlines(s) ==
    Len(s) = 0 \/ \E i \in 1..Len(s) : s[i] = "\n" \/ s[i] = "\r"

str_is_hex(s) ==
    ~ \E i \in 1..Len(s) : s[i] \notin AsciiHexDigits

(* std::path::Path, for Unix paths without "." components.                 *)
(* Components(p) lists the normal components of p, has_root(p) tells       *)
(* whether a RootDir component precedes them.                              *)
RECURSIVE SplitSlash(_, _)
SplitSlash(p, cur) ==
    IF p = <<>> THEN (IF cur = <<>> THEN <<>> ELSE <<cur>>)
    ELSE IF Head(p) = "/"
         THEN (IF cur = <<>> THEN <<>> ELSE <<cur>>) \o SplitSlash(Tail(p), <<>>)
         ELSE SplitSlash(Tail(p), Append(cur, Head(p)))

Components(p) == SplitSlash(p, <<>>)
has_root(p) == Len(p) > 0 /\ p[1] = "/"
is_relative(p) == ~has_root(p)

\* Path::parent: None when p has no component or ends in the root;
\* otherwise the path without its last component, which is the empty path
\* for a path of a single component.
parent(p) ==
    LET c == Components(p)
    IN  IF c = <<>> THEN None
        ELSE Some([root |-> has_root(p), comps |-> SubSeq(c, 1, Len(c) - 1)])

\* Path::file_name: the last component unless it is "..".
file_name(p) ==
    LET c == Components(p)
    IN  IF c = <<>> \/ c[Len(c)] = <<".", ".">> THEN None
        ELSE Some(c[Len(c)])

\* Path::extension: the part of file_name after its last dot; None when
\* there is no dot or the only dot is the first character.
extension(p) ==
    LET f == file_name(p)
    IN  IF IsNone(f) THEN None
        ELSE LET n == Unwrap(f)
                 dots == {i \in 1..Len(n) : n[i] = "."}
             IN  IF dots = {} THEN None
                 ELSE LET d == CHOOSE i \in dots : \A j \in dots : j <= i
                      IN  IF d = 1 THEN None
                          ELSE Some(SubSeq(n, d + 1, Len(n)))

\* Path::is_file: the path names a regular file, resolved against cwd.
is_file(p, files) == p \in files

path_is_invalid_NoParent(p, files) ==
    ~is_file(p, files) \/ ~is_relative(p) \/ IsNone(extension(p))

path_is_invalid(p, files) ==
    \/ ~is_file(p, files)
    \/ ~is_relative(p)
    \/ IsNone(extension(p))
    \/ IsSome(parent(p))

constant_time_eq(a, b) == a = b

-----------------------------------------------------------------------------
(* src/src/beatmap.rs                                                      *)

HASH_LEN == 40

\* BeatmapDifficulty::validate
DifficultyValidate(d) ==
    IF str_is_empty_or_has_newlines(d.name)
    THEN Err([variant |-> "InvalidField", field |-> "name", value |-> d.name])
    ELSE IF str_is_empty_or_has_newlines(d.characteristic)
    THEN Err([variant |-> "InvalidField", field |-> "characteristic",
              value |-> d.characteristic])
    ELSE Ok

\* The first part of Beatmap::validate: the identifier of the declared type
\* is populated.
MismatchedType(m) ==
    \/ m.ty = "key" /\ IsNone(m.key)
    \/ m.ty = "hash" /\ IsNone(m.hash)
    \/ m.ty = "levelID" /\ IsNone(m.level_id)

\* The last part of Beatmap::validate: the format of every populated
\* identifier, in the order key, hash, levelID.
IdentifierFormat_HashNotChecked(m) ==
    IF IsSome(m.key) /\ (Len(Unwrap(m.key)) = 0 \/ ~str_is_hex(Unwrap(m.key)))
    THEN Err([variant |-> "InvalidField", field |-> "key", value |-> Unwrap(m.key)])
    ELSE IF IsSome(m.level_id) /\ str_is_empty_or_has_newlines(Unwrap(m.level_id))
    THEN Err([variant |-> "InvalidField", field |-> "levelID",
              value |-> Unwrap(m.level_id)])
    ELSE Ok

IdentifierFormat_OnlyDeclared(m) ==
    IF m.ty = "key" /\ IsSome(m.key)
       /\ (Len(Unwrap(m.key)) = 0 \/ ~str_is_hex(Unwrap(m.key)))
    THEN Err([variant |-> "InvalidField", field |-> "key", value |-> Unwrap(m.key)])
    ELSE IF m.ty = "hash" /\ IsSome(m.hash)
            /\ (Len(Unwrap(m.hash)) # HASH_LEN \/ ~str_is_hex(Unwrap(m.hash)))
    THEN Err([variant |-> "InvalidField", field |-> "hash", value |-> Unwrap(m.hash)])
    ELSE IF m.ty = "levelID" /\ IsSome(m.level_id)
            /\ str_is_empty_or_has_newlines(Unwrap(m.level_id))
    THEN Err([variant |-> "InvalidField", field |-> "levelID",
              value |-> Unwrap(m.level_id)])
    ELSE Ok

IdentifierFormat(m) ==
    IF IsSome(m.key) /\ (Len(Unwrap(m.key)) = 0 \/ ~str_is_hex(Unwrap(m.key)))
    THEN Err([variant |-> "InvalidField", field |-> "key", value |-> Unwrap(m.key)])
    ELSE IF IsSome(m.hash)
            /\ (Len(Unwrap(m.hash)) # HASH_LEN \/ ~str_is_hex(Unwrap(m.hash)))
    THEN Err([variant |-> "InvalidField", field |-> "hash", value |-> Unwrap(m.hash)])
    ELSE IF IsSome(m.level_id) /\ str_is_empty_or_has_newlines(Unwrap(m.level_id))
    THEN Err([variant |-> "InvalidField", field |-> "levelID",
              value |-> Unwrap(m.level_id)])
    ELSE Ok

BeatmapValidate_FormatFirst(m) ==
    IF ~IsOk(IdentifierFormat(m)) THEN IdentifierFormat(m)
    ELSE IF MismatchedType(m)
    THEN Err([variant |-> "MismatchedType", ty |-> m.ty, field |-> m.ty])
    ELSE LET bad == {i \in 1..Len(m.difficulties) :
                        ~IsOk(DifficultyValidate(m.difficulties[i]))}
         IN  IF bad # {}
             THEN LET i == CHOOSE i \in bad : \A j \in bad : i <= j
                  IN  Err([variant |-> "InvalidDifficulty", idx |-> i - 1,
                           error |-> DifficultyValidate(m.difficulties[i]).err])
             ELSE Ok

\* Beatmap::validate
BeatmapValidate(m) ==
    IF MismatchedType(m)
    THEN Err([variant |-> "MismatchedType", ty |-> m.ty, field |-> m.ty])
    ELSE LET bad == {i \in 1..Len(m.difficulties) :
                        ~IsOk(DifficultyValidate(m.difficulties[i]))}
         IN  IF bad # {}
             THEN LET i == CHOOSE i \in bad : \A j \in bad : i <= j
                  IN  Err([variant |-> "InvalidDifficulty", idx |-> i - 1,
                           error |-> DifficultyValidate(m.difficulties[i]).err])
             ELSE IdentifierFormat(m)

-----------------------------------------------------------------------------
(* src/src/playlist.rs: validation                                         *)

SCHEMA == "https://raw.githubusercontent.com/raftario/blist/master/playlist.schema.json"

sPng == <<"p", "n", "g">>
sJpg == <<"j", "p", "g">>
sJpeg == <<"j", "p", "e", "g">>

InvalidCoverPath(ty, path) ==
    Err([variant |-> "InvalidCoverPath", ty |-> ty, path |-> path])
InvalidCoverData(ty) == Err([variant |-> "InvalidCoverData", ty |-> ty])
UnknownCoverType == Err([variant |-> "UnknownCoverType"])

HasMagic(data, magic) ==
    /\ Len(data) >= Len(magic)
    /\ constant_time_eq(SubSeq(data, 1, Len(magic)), magic)

\* PlaylistCover::validate
CoverValidate(c, files) ==
    CASE c.ty = "Png" ->
            IF path_is_invalid(c.path, files) \/ Unwrap(extension(c.path)) # sPng
            THEN InvalidCoverPath("png", c.path)
            ELSE IF ~HasMagic(c.data, PNG_MAGIC_NUMBER)
            THEN InvalidCoverData("png")
            ELSE Ok
      [] c.ty = "Jpg" ->
            IF path_is_invalid(c.path, files)
            THEN InvalidCoverPath("jpg", c.path)
            ELSE IF Unwrap(extension(c.path)) # sJpg
                    /\ Unwrap(extension(c.path)) # sJpeg
            THEN InvalidCoverPath("jpg", c.path)
            ELSE IF ~HasMagic(c.data, JPG_MAGIC_NUMBER)
            THEN InvalidCoverData("jpg")
            ELSE Ok
      [] OTHER -> UnknownCoverType

\* Playlist::validate_inner
ValidateInner(p, validate_cover, files) ==
    IF str_is_empty_or_has_newlines(p.title)
    THEN Err([variant |-> "InvalidField", field |-> "title", value |-> p.title])
    ELSE IF IsSome(p.author) /\ str_is_empty_or_has_newlines(Unwrap(p.author))
    THEN Err([variant |-> "InvalidField", field |-> "author",
              value |-> Unwrap(p.author)])
    ELSE IF IsSome(p.description) /\ Len(Unwrap(p.description)) = 0
    THEN Err([variant |-> "InvalidField", field |-> "description",
              value |-> Unwrap(p.description)])
    ELSE IF validate_cover /\ IsSome(p.cover)
            /\ ~IsOk(CoverValidate(Unwrap(p.cover), files))
    THEN Err([variant |-> "InvalidCover",
              error |-> CoverValidate(Unwrap(p.cover), files).err])
    ELSE LET bad == {i \in 1..Len(p.maps) : ~IsOk(BeatmapValidate(p.maps[i]))}
         IN  IF bad # {}
             THEN LET i == CHOOSE i \in bad : \A j \in bad : i <= j
                  IN  Err([variant |-> "InvalidBeatmap", idx |-> i - 1,
                           error |-> BeatmapValidate(p.maps[i]).err])
             ELSE Ok

\* Error::Validation, the From conversion the ? operator applies.
ValidationError(r) ==
    IF IsOk(r) THEN r ELSE Err([variant |-> "Validation", error |-> r.err])

\* Playlist::validate
Validate(p, files) == ValidationError(ValidateInner(p, TRUE, files))

-----------------------------------------------------------------------------
(* The serde_json encoding the derives of src/src/playlist.rs and          *)
(* src/src/beatmap.rs declare.  A JSON value is a tagged record, a JSON    *)
(* object a function from its keys to JSON values.                         *)

JNull == [j |-> "null"]
JStr(s) == [j |-> "str", v |-> s]
JDate(d) == [j |-> "date", v |-> d]
JArr(a) == [j |-> "arr", v |-> a]
JObj(o) == [j |-> "obj", v |-> o]

Field(k, present, value) == IF present THEN k :> value ELSE EmptyMap
Get(o, k) == IF k \in DOMAIN o THEN o[k] ELSE JNull

\* Option<String> and Option<DateTime<Utc>> without skip_serializing_if.
OptToJson(o, tag) == IF IsNone(o) THEN JNull ELSE [j |-> tag, v |-> Unwrap(o)]
\* An Option field: absent or null gives None, another type is an error.
OptTypeOk(o, k, tag) == Get(o, k).j \in {"null", tag}
OptFromJson(o, k) == IF Get(o, k).j = "null" THEN None ELSE Some(Get(o, k).v)

\* BeatmapDifficulty (camelCase)
DifficultyToJson(d) ==
    JObj(("name" :> JStr(d.name)) @@ ("characteristic" :> JStr(d.characteristic)))

DifficultyJsonOk(v) ==
    /\ v.j = "obj"
    /\ Get(v.v, "name").j = "str"
    /\ Get(v.v, "characteristic").j = "str"

DifficultyFromJson(v) ==
    [name |-> v.v["name"].v, characteristic |-> v.v["characteristic"].v]

\* Beatmap: type, date, key, hash and levelID are always written (null when
\* None); difficulties and customData are skipped when empty.
BeatmapToJson(m) ==
    JObj(("type" :> JStr(m.ty))
         @@ ("date" :> OptToJson(m.date, "date"))
         @@ Field("difficulties", m.difficulties # <<>>,
                  JArr([i \in 1..Len(m.difficulties) |->
                           DifficultyToJson(m.difficulties[i])]))
         @@ ("key" :> OptToJson(m.key, "str"))
         @@ ("hash" :> OptToJson(m.hash, "str"))
         @@ ("levelID" :> OptToJson(m.level_id, "str"))
         @@ Field("customData", DOMAIN m.custom_data # {}, JObj(m.custom_data)))

BeatmapTypes == {"key", "hash", "levelID"}

BeatmapJsonOk(v) ==
    /\ v.j = "obj"
    /\ Get(v.v, "type").j = "str"
    /\ Get(v.v, "type").v \in BeatmapTypes
    /\ OptTypeOk(v.v, "date", "date")
    /\ OptTypeOk(v.v, "key", "str")
    /\ OptTypeOk(v.v, "hash", "str")
    /\ OptTypeOk(v.v, "levelID", "str")
    /\ "difficulties" \in DOMAIN v.v =>
          /\ v.v["difficulties"].j = "arr"
          /\ \A i \in 1..Len(v.v["difficulties"].v) :
                DifficultyJsonOk(v.v["difficulties"].v[i])
    /\ "customData" \in DOMAIN v.v => v.v["customData"].j = "obj"

BeatmapFromJson(v) ==
    [ty |-> v.v["type"].v,
     date |-> OptFromJson(v.v, "date"),
     difficulties |->
        IF "difficulties" \in DOMAIN v.v
        THEN [i \in 1..Len(v.v["difficulties"].v) |->
                 DifficultyFromJson(v.v["difficulties"].v[i])]
        ELSE <<>>,
     key |-> OptFromJson(v.v, "key"),
     hash |-> OptFromJson(v.v, "hash"),
     level_id |-> OptFromJson(v.v, "levelID"),
     custom_data |->
        IF "customData" \in DOMAIN v.v THEN v.v["customData"].v ELSE EmptyMap]

\* Playlist: author and description are skipped when None, customData when
\* empty; the cover is flattened into the top level as its path alone
\* (data and ty are #[serde(skip)]).
PlaylistToJson_DropsDescription(p) ==
    ("$schema" :> JStr(p._schema))
    @@ ("title" :> JStr(p.title))
    @@ Field("author", IsSome(p.author), OptToJson(p.author, "str"))
    @@ Field("cover", IsSome(p.cover),
             IF IsSome(p.cover) THEN JStr(Unwrap(p.cover).path) ELSE JNull)
    @@ ("maps" :> JArr([i \in 1..Len(p.maps) |-> BeatmapToJson(p.maps[i])]))
    @@ Field("customData", DOMAIN p.custom_data # {}, JObj(p.custom_data))

PlaylistToJson(p) ==
    ("$schema" :> JStr(p._schema))
    @@ ("title" :> JStr(p.title))
    @@ Field("author", IsSome(p.author), OptToJson(p.author, "str"))
    @@ Field("description", IsSome(p.description), OptToJson(p.description, "str"))
    @@ Field("cover", IsSome(p.cover),
             IF IsSome(p.cover) THEN JStr(Unwrap(p.cover).path) ELSE JNull)
    @@ ("maps" :> JArr([i \in 1..Len(p.maps) |-> BeatmapToJson(p.maps[i])]))
    @@ Field("customData", DOMAIN p.custom_data # {}, JObj(p.custom_data))

PlaylistJsonOk(o) ==
    /\ Get(o, "title").j = "str"
    /\ OptTypeOk(o, "author", "str")
    /\ OptTypeOk(o, "description", "str")
    /\ Get(o, "maps").j = "arr"
    /\ \A i \in 1..Len(o["maps"].v) : BeatmapJsonOk(o["maps"].v[i])
    /\ "customData" \in DOMAIN o => o["customData"].j = "obj"

\* The deserialized skeleton: a cover named by the manifest has empty data
\* and the default type, Unknown; $schema is not read back but defaulted.
PlaylistFromJson(o) ==
    [_schema |-> SCHEMA,
     title |-> o["title"].v,
     author |-> OptFromJson(o, "author"),
     description |-> OptFromJson(o, "description"),
     cover |-> IF Get(o, "cover").j = "str"
               THEN Some([path |-> o["cover"].v, data |-> <<>>, ty |-> "Unknown"])
               ELSE None,
     maps |-> [i \in 1..Len(o["maps"].v) |-> BeatmapFromJson(o["maps"].v[i])],
     custom_data |-> IF "customData" \in DOMAIN o THEN o["customData"].v
                     ELSE EmptyMap]

-----------------------------------------------------------------------------
(* src/src/playlist.rs: the archive codec.  An archive is the list of its  *)
(* entries and whether its central directory was written (finish); an      *)
(* entry holds either a JSON text or raw bytes.                            *)

JsonText(o) == [text |-> "json", doc |-> o]
RawBytes(b) == [text |-> "raw", bytes |-> b]
NoArchive == [entries |-> <<>>, finished |-> FALSE]

sPlaylistJson ==
    <<"p", "l", "a", "y", "l", "i", "s", "t", ".", "j", "s", "o", "n">>

HasEntry(a, name) == \E i \in 1..Len(a.entries) : a.entries[i].name = name
\* ZipArchive::by_name
by_name(a, name) ==
    a.entries[CHOOSE i \in 1..Len(a.entries) : a.entries[i].name = name].data

ZipError(what) == Err([variant |-> "Zip", error |-> what])
JsonError == Err([variant |-> "Json"])
IoError(what) == Err([variant |-> "IO", error |-> what])
CoverError(e) ==
    Err([variant |-> "Validation", error |-> [variant |-> "InvalidCover", error |-> e]])

\* The cover branch of Playlist::read for one recognised extension: the
\* entry is looked up, its first bytes are read and compared with the magic
\* number, and the bytes after them are read into the cover's data.
ReadCover(a, c, ty, tyname, magic) ==
    IF ~HasEntry(a, c.path) THEN ZipError("FileNotFound")
    ELSE LET bytes == by_name(a, c.path).bytes
         IN  IF Len(bytes) < Len(magic) THEN IoError("UnexpectedEof")
             ELSE IF ~constant_time_eq(SubSeq(bytes, 1, Len(magic)), magic)
             THEN CoverError([variant |-> "InvalidCoverData", ty |-> tyname])
             ELSE OkV([path |-> c.path,
                       data |-> c.data \o SubSeq(bytes, Len(magic) + 1, Len(bytes)),
                       ty |-> ty])

\* Lines 60-109 of Playlist::read: the cover the manifest names is loaded.
LoadCover(a, c, files) ==
    IF ~path_is_invalid(c.path, files)
    THEN LET ext == Unwrap(extension(c.path))
         IN  IF ext = sPng THEN ReadCover(a, c, "Png", "png", PNG_MAGIC_NUMBER)
             ELSE IF ext = sJpg \/ ext = sJpeg
             THEN ReadCover(a, c, "Jpg", "jpg", JPG_MAGIC_NUMBER)
             ELSE CoverError([variant |-> "UnknownCoverType"])
    ELSE CoverError([variant |-> "InvalidCoverPath", ty |-> "unknown",
                     path |-> c.path])

\* Playlist::read
Read_NoValidation(a, files) ==
    IF ~a.finished THEN ZipError("InvalidArchive")
    ELSE IF ~HasEntry(a, sPlaylistJson) THEN ZipError("FileNotFound")
    ELSE LET file == by_name(a, sPlaylistJson)
         IN  IF file.text # "json" \/ ~PlaylistJsonOk(file.doc) THEN JsonError
             ELSE OkV(PlaylistFromJson(file.doc))

Read(a, files) ==
    IF ~a.finished THEN ZipError("InvalidArchive")
    ELSE IF ~HasEntry(a, sPlaylistJson) THEN ZipError("FileNotFound")
    ELSE LET file == by_name(a, sPlaylistJson)
         IN  IF file.text # "json" \/ ~PlaylistJsonOk(file.doc) THEN JsonError
             ELSE LET skeleton == PlaylistFromJson(file.doc)
                      cover == IF IsSome(skeleton.cover)
                               THEN LoadCover(a, Unwrap(skeleton.cover), files)
                               ELSE Ok
                  IN  IF ~IsOk(cover) THEN cover
                      ELSE LET p == IF IsSome(skeleton.cover)
                                    THEN [skeleton EXCEPT !.cover = Some(cover.v)]
                                    ELSE skeleton
                               v == ValidationError(ValidateInner(p, FALSE, files))
                           IN  IF ~IsOk(v) THEN v ELSE OkV(p)

\* Playlist::write: the result and what the writer holds afterwards.
Write_ValidatesLast(p, w, files) ==
    LET manifest == [name |-> sPlaylistJson, data |-> JsonText(PlaylistToJson(p))]
        v == ValidationError(ValidateInner(p, TRUE, files))
    IN  IF ~IsOk(v)
        THEN [res |-> v, w |-> [entries |-> <<manifest>>, finished |-> FALSE]]
        ELSE [res |-> Ok, w |-> [entries |-> <<manifest>>, finished |-> TRUE]]

Write(p, w, files) ==
    LET v == ValidationError(ValidateInner(p, TRUE, files))
        manifest == [name |-> sPlaylistJson, data |-> JsonText(PlaylistToJson(p))]
        cover == IF IsSome(p.cover)
                 THEN <<[name |-> Unwrap(p.cover).path,
                         data |-> RawBytes(Unwrap(p.cover).data)]>>
                 ELSE <<>>
    IN  IF ~IsOk(v) THEN [res |-> v, w |-> w]
        ELSE [res |-> Ok,
              w |-> [entries |-> <<manifest>> \o cover, finished |-> TRUE]]

-----------------------------------------------------------------------------
(* The values the model draws its inputs from.                             *)

sA == <<"a">>
sEmpty == <<>>
sNewline == <<"a", "\n">>
sReturn == <<"\r", "a">>
sMultiLine == <<"a", "\n", "b">>

Titles == {sA, sEmpty, sNewline, sReturn}
Authors == {None, Some(sA), Some(sEmpty), Some(sNewline), Some(sReturn)}
Descriptions == {None, Some(sA), Some(sEmpty), Some(sMultiLine)}

CustomDatas == {EmptyMap, "key" :> JStr(<<"v">>)}

sCoverPng == <<"c", "o", "v", "e", "r", ".", "p", "n", "g">>
sCoverJpg == <<"c", "o", "v", "e", "r", ".", "j", "p", "g">>
sCoverJpeg == <<"c", "o", "v", "e", "r", ".", "j", "p", "e", "g">>
sCoverExe == <<"c", "o", "v", "e", "r", ".", "e", "x", "e">>
sCoverNoExt == <<"c", "o", "v", "e", "r">>
sSubCoverJpg == <<"s", "u", "b", "/", "c", "o", "v", "e", "r", ".", "j", "p", "g">>
sSubCoverPng == <<"s", "u", "b", "/", "c", "o", "v", "e", "r", ".", "p", "n", "g">>
sRootCoverPng == <<"/", "c", "o", "v", "e", "r", ".", "p", "n", "g">>

CoverPaths ==
    {sCoverPng, sCoverJpg, sCoverJpeg, sCoverExe, sCoverNoExt,
     sSubCoverJpg, sSubCoverPng, sRootCoverPng}

PngImage == PNG_MAGIC_NUMBER \o <<0, 1>>
PngTwice == PNG_MAGIC_NUMBER \o PNG_MAGIC_NUMBER \o <<0>>
PngTruncated == SubSeq(PNG_MAGIC_NUMBER, 1, PNG_MAGIC_NUMBER_LEN - 1)
JpgImage == JPG_MAGIC_NUMBER \o <<224, 0>>
JpgTruncated == SubSeq(JPG_MAGIC_NUMBER, 1, JPG_MAGIC_NUMBER_LEN - 1)
NotAnImage == <<0, 1, 2, 3, 4, 5, 6, 7, 8, 9>>

CoverDatas ==
    {PngImage, PNG_MAGIC_NUMBER, PngTruncated, JpgImage, JpgTruncated,
     NotAnImage, <<>>}
CoverTypes == {"Png", "Jpg", "Unknown"}

Covers == [path : CoverPaths, data : CoverDatas, ty : CoverTypes]

\* The working directory holds none of the cover paths, or all of them.
Cwds == {{}, CoverPaths}

s16af == <<"1", "6", "a", "f">>
sNotHex == <<"z", "z">>
sDeadbeef == <<"d", "e", "a", "d", "b", "e", "e", "f">>
Hex16 ==
    <<"0", "1", "2", "3", "4", "5", "6", "7", "8", "9", "a", "b", "c", "d", "e", "f">>
\* "0123456789abcdef0123456789abcdef01234567" for HASH_LEN = 40
HexOfLen(n) == [i \in 1..n |-> Hex16[((i - 1) % 16) + 1]]
sHash == HexOfLen(HASH_LEN)
sHashUpper == [i \in 1..HASH_LEN |-> IF i = 1 THEN "A" ELSE sHash[i]]
sHashShort == HexOfLen(HASH_LEN - 1)
sHashLong == HexOfLen(HASH_LEN + 1)
sHashNotHex == [i \in 1..HASH_LEN |-> IF i <= 2 THEN "z" ELSE sHash[i]]
sLevel == <<"l", "e", "v", "e", "l", " ", "I", "D">>

Keys == {None, Some(s16af), Some(sEmpty), Some(sNotHex)}
Hashes ==
    {None, Some(sHash), Some(sHashUpper), Some(sDeadbeef), Some(sHashShort),
     Some(sHashLong), Some(sHashNotHex)}
LevelIds == {None, Some(sLevel), Some(sEmpty), Some(sNewline)}

dExpertPlus == [name |-> <<"E", "x", "p", "e", "r", "t", "+">>, characteristic |-> sA]
dBadName == [name |-> sEmpty, characteristic |-> sNewline]
dBadCharacteristic == [name |-> sA, characteristic |-> sReturn]
DifficultyLists ==
    {<<>>, <<dExpertPlus>>, <<dBadName>>, <<dExpertPlus, dBadCharacteristic>>}

\* A timestamp is an opaque value; date and custom data vary together.
Extras == {[date |-> None, custom_data |-> EmptyMap],
           [date |-> Some(1577836800), custom_data |-> "k" :> JStr(<<"v">>)]}

Beatmaps ==
    {[ty |-> t, date |-> x.date, difficulties |-> d, key |-> k, hash |-> h,
      level_id |-> l, custom_data |-> x.custom_data] :
        t \in BeatmapTypes, x \in Extras, d \in DifficultyLists,
        k \in Keys, h \in Hashes, l \in LevelIds}

\* Beatmap::new_key, new_hash and new_level_id, with the date given.
new_key(key, date) ==
    [ty |-> "key", date |-> Some(date), difficulties |-> <<>>, key |-> Some(key),
     hash |-> None, level_id |-> None, custom_data |-> EmptyMap]
new_hash(hash, date) ==
    [ty |-> "hash", date |-> Some(date), difficulties |-> <<>>, key |-> None,
     hash |-> Some(hash), level_id |-> None, custom_data |-> EmptyMap]
new_level_id(level_id, date) ==
    [ty |-> "levelID", date |-> Some(date), difficulties |-> <<>>, key |-> None,
     hash |-> None, level_id |-> Some(level_id), custom_data |-> EmptyMap]

\* The tracks longer lists are made of: three valid ones, three invalid ones.
SmallBeatmaps ==
    {[new_key(s16af, 1) EXCEPT !.difficulties = <<dExpertPlus>>],
     new_hash(sHash, 2),
     new_level_id(sLevel, 3),
     new_key(sNotHex, 4),
     [new_hash(sHash, 5) EXCEPT !.hash = None],
     [new_level_id(sLevel, 6) EXCEPT !.difficulties = <<dBadName>>]}

SeqsOfLen(S, n) == [1..n -> S]

\* Playlist::new
new(title) ==
    [_schema |-> SCHEMA, title |-> title, author |-> None, description |-> None,
     cover |-> None, maps |-> <<>>, custom_data |-> EmptyMap]

\* Playlists without cover and maps, with every combination of the fields.
HeaderPlaylists ==
    {[new(t) EXCEPT !.author = a, !.description = d, !.custom_data = c] :
        t \in Titles, a \in Authors, d \in Descriptions, c \in CustomDatas}
\* Playlists with a cover.
CoverPlaylists ==
    {[new(t) EXCEPT !.cover = Some(c)] : t \in {sA, sEmpty}, c \in Covers}
\* Playlists of one track.
TrackPlaylists == {[new(sA) EXCEPT !.maps = <<m>>] : m \in Beatmaps}
\* Playlists of two to MaxMaps tracks, with and without a description.
ListPlaylists ==
    {[new(sA) EXCEPT !.maps = ms, !.description = d] :
        ms \in UNION {SeqsOfLen(SmallBeatmaps, n) : n \in 2..MaxMaps},
        d \in {None, Some(sMultiLine)}}

Playlists == HeaderPlaylists \cup CoverPlaylists \cup TrackPlaylists \cup ListPlaylists

\* Playlists in which several of title, author, description, cover and
\* tracks are invalid at once.
OrderPlaylists ==
    {[new(t) EXCEPT !.author = a, !.description = d, !.cover = c, !.maps = ms] :
        t \in {sA, sNewline}, a \in {None, Some(sEmpty)}, d \in {None, Some(sEmpty)},
        c \in {None, Some([path |-> sCoverPng, data |-> PngImage, ty |-> "Png"])},
        ms \in {<<>>, <<new_key(sNotHex, 4)>>,
                <<new_hash(sHash, 2), [new_hash(sHash, 5) EXCEPT !.hash = None]>>}}

-----------------------------------------------------------------------------
(* Archives that were not produced by Playlist::write.                     *)

ForeignManifests ==
    {Field("title", t, JStr(sA))
     @@ Field("cover", IsSome(c), JStr(IF IsSome(c) THEN Unwrap(c) ELSE sEmpty))
     @@ ("maps" :> JArr(ms)) :
        t \in BOOLEAN,
        c \in {None} \cup {Some(q) : q \in CoverPaths},
        ms \in {<<>>, <<BeatmapToJson(new_key(s16af, 1))>>,
                <<BeatmapToJson(new_key(sNotHex, 1))>>}}

ForeignCoverEntries ==
    {<<>>} \cup
    {<<[name |-> n, data |-> RawBytes(b)]>> :
        n \in {sCoverPng, sCoverJpg, sCoverJpeg, sCoverExe},
        b \in {PngImage, PngTwice, PngTruncated, JpgImage, NotAnImage}}

ForeignArchives ==
    {[entries |-> <<[name |-> sPlaylistJson, data |-> JsonText(m)]>> \o e,
      finished |-> TRUE] : m \in ForeignManifests, e \in ForeignCoverEntries}
    \cup
    {\* truncated before the central directory, no manifest, manifest not JSON
     [entries |-> <<[name |-> sPlaylistJson, data |-> JsonText(PlaylistToJson(new(sA)))]>>,
      finished |-> FALSE],
     [entries |-> <<[name |-> sCoverPng, data |-> RawBytes(PngImage)]>>,
      finished |-> TRUE],
     [entries |-> <<[name |-> sPlaylistJson, data |-> RawBytes(NotAnImage)]>>,
      finished |-> TRUE]}

-----------------------------------------------------------------------------
(* base64::decode, standard alphabet: the padding is optional, a character *)
(* outside the alphabet, a lone trailing character and non-zero trailing   *)
(* bits are errors.                                                        *)

Base64Alphabet ==
    <<
     "A", "B", "C", "D", "E", "F", "G", "H", "I", "J", "K", "L", "M", "N",
     "O", "P", "Q", "R", "S", "T", "U", "V", "W", "X", "Y", "Z", "a", "b",
     "c", "d", "e", "f", "g", "h", "i", "j", "k", "l", "m", "n", "o", "p",
     "q", "r", "s", "t", "u", "v", "w", "x", "y", "z", "0", "1", "2", "3",
     "4", "5", "6", "7", "8", "9", "+", "/">>

Base64Value(c) == (CHOOSE i \in 1..Len(Base64Alphabet) : Base64Alphabet[i] = c) - 1

RECURSIVE StripPadding(_, _)
StripPadding(s, n) ==
    IF n > 0 /\ Len(s) > 0 /\ s[Len(s)] = "="
    THEN StripPadding(SubSeq(s, 1, Len(s) - 1), n - 1)
    ELSE s

RECURSIVE DecodeSymbols(_)
DecodeSymbols(s) ==
    IF Len(s) >= 4
    THEN LET n == Base64Value(s[1]) * 262144 + Base64Value(s[2]) * 4096
                  + Base64Value(s[3]) * 64 + Base64Value(s[4])
         IN  <<n \div 65536, (n \div 256) % 256, n % 256>>
             \o DecodeSymbols(SubSeq(s, 5, Len(s)))
    ELSE IF Len(s) = 3
    THEN LET n == Base64Value(s[1]) * 4096 + Base64Value(s[2]) * 64
                  + Base64Value(s[3])
         IN  <<n \div 1024, (n \div 4) % 256>>
    ELSE IF Len(s) = 2
    THEN <<(Base64Value(s[1]) * 64 + Base64Value(s[2])) \div 16>>
    ELSE <<>>

TrailingBits(s) ==
    IF Len(s) % 4 = 3 THEN Base64Value(s[Len(s)]) % 4
    ELSE IF Len(s) % 4 = 2 THEN Base64Value(s[Len(s)]) % 16
    ELSE 0

Base64Decode(s) ==
    LET body == StripPadding(s, 2)
    IN  IF \E i \in 1..Len(body) : \A j \in 1..Len(Base64Alphabet) :
                                       Base64Alphabet[j] # body[i]
        THEN Err([variant |-> "InvalidByte"])
        ELSE IF Len(body) % 4 = 1
                \/ (Len(body) # Len(s) /\ Len(s) % 4 # 0)
        THEN Err([variant |-> "InvalidLength"])
        ELSE IF TrailingBits(body) # 0
        THEN Err([variant |-> "InvalidLastSymbol"])
        ELSE OkV(DecodeSymbols(body))

-----------------------------------------------------------------------------
(* src/src/playlist.rs: set_png_cover and set_jpg_cover                    *)

set_png_cover(p, data) ==
    [p EXCEPT !.cover = Some([path |-> sCoverPng, data |-> data, ty |-> "Png"])]

set_jpg_cover(p, data) ==
    [p EXCEPT !.cover = Some([path |-> sCoverJpg, data |-> data, ty |-> "Jpg"])]

-----------------------------------------------------------------------------
(* src/converter/src/legacy.rs                                             *)

PNG_B64_PREFIX ==
    <<"d", "a", "t", "a", ":", "i", "m", "a", "g", "e", "/", "p", "n", "g", ";", "b", "a", "s", "e", "6", "4", ",">>
JPG_B64_PREFIX ==
    <<"d", "a", "t", "a", ":", "i", "m", "a", "g", "e", "/", "j", "p", "g", ";", "b", "a", "s", "e", "6", "4", ",">>
JPEG_B64_PREFIX ==
    <<"d", "a", "t", "a", ":", "i", "m", "a", "g", "e", "/", "j", "p", "e", "g", ";", "b", "a", "s", "e", "6", "4", ",">>

starts_with(s, prefix) ==
    Len(s) >= Len(prefix) /\ SubSeq(s, 1, Len(prefix)) = prefix

\* while b64.starts_with(' ') { b64 = &b64[1..]; }
RECURSIVE SkipSpaces(_)
SkipSpaces(s) ==
    IF Len(s) > 0 /\ s[1] = " " THEN SkipSpaces(Tail(s)) ELSE s

AfterPrefix_KeepsSpaces(c, prefix) == SubSeq(c, Len(prefix) + 1, Len(c))

AfterPrefix(c, prefix) == SkipSpaces(SubSeq(c, Len(prefix) + 1, Len(c)))

\* LegacyBeatmap::into_beatmap
into_beatmap_HashFirst(m, preserve_custom_data) ==
    [ty |-> IF IsSome(m.hash) THEN "hash"
            ELSE IF IsSome(m.key) THEN "key"
            ELSE "levelID",
     date |-> m.date,
     difficulties |-> <<>>,
     key |-> m.key,
     hash |-> m.hash,
     level_id |-> None,
     custom_data |-> IF preserve_custom_data THEN m.custom_data ELSE EmptyMap]

into_beatmap(m, preserve_custom_data) ==
    [ty |-> IF IsSome(m.key) THEN "key"
            ELSE IF IsSome(m.hash) THEN "hash"
            ELSE "levelID",
     date |-> m.date,
     difficulties |-> <<>>,
     key |-> m.key,
     hash |-> m.hash,
     level_id |-> None,
     custom_data |-> IF preserve_custom_data THEN m.custom_data ELSE EmptyMap]

\* Lines 55-78 of into_playlist: the cover a data-URI image gives; an image
\* without one of the three prefixes leaves the playlist without cover.
WithCover(p, c) ==
    IF starts_with(c, PNG_B64_PREFIX)
    THEN LET data == Base64Decode(AfterPrefix(c, PNG_B64_PREFIX))
         IN  IF IsOk(data) THEN OkV(set_png_cover(p, data.v))
             ELSE Err([variant |-> "Base64", error |-> data.err])
    ELSE IF starts_with(c, JPG_B64_PREFIX)
    THEN LET data == Base64Decode(AfterPrefix(c, JPG_B64_PREFIX))
         IN  IF IsOk(data) THEN OkV(set_jpg_cover(p, data.v))
             ELSE Err([variant |-> "Base64", error |-> data.err])
    ELSE IF starts_with(c, JPEG_B64_PREFIX)
    THEN LET data == Base64Decode(AfterPrefix(c, JPEG_B64_PREFIX))
         IN  IF IsOk(data) THEN OkV(set_jpg_cover(p, data.v))
             ELSE Err([variant |-> "Base64", error |-> data.err])
    ELSE OkV(p)

\* LegacyPlaylist::into_playlist
into_playlist(l, preserve_custom_data) ==
    LET p == [_schema |-> SCHEMA,
              title |-> l.title,
              author |-> l.author,
              description |-> l.description,
              cover |-> None,
              maps |-> [i \in 1..Len(l.maps) |->
                           into_beatmap(l.maps[i], preserve_custom_data)],
              custom_data |-> IF preserve_custom_data THEN l.custom_data
                              ELSE EmptyMap]
    IN  IF IsSome(l.cover) THEN WithCover(p, Unwrap(l.cover)) ELSE OkV(p)

(* The legacy documents the model draws from.                              *)

\* The longest list of songs of a legacy document.
MaxSongs == 2

b64Png == <<"i", "V", "B", "O", "R", "w", "0", "K", "G", "g", "o", "=">>
b64PngImage == <<"i", "V", "B", "O", "R", "w", "0", "K", "G", "g", "o", "A", "A", "Q", "=", "=">>
b64Jpg == <<"/", "9", "j", "/">>
b64NotAnImage == <<"A", "A", "E", "C", "A", "w", "Q", "F">>
b64Unpadded == <<"i", "V", "B", "O", "R", "w", "0", "K", "G", "g", "o">>
b64Invalid == <<"i", "V", "B", "O", "!", "w", "0", "K">>

LegacyCovers ==
    {None}
    \cup {Some(x) : x \in {b64Png, b64PngImage, b64Jpg, b64NotAnImage, b64Invalid}}
    \cup {Some(prefix \o spaces \o x) :
            prefix \in {PNG_B64_PREFIX, JPG_B64_PREFIX, JPEG_B64_PREFIX},
            spaces \in {<<>>, <<" ">>, <<" ", " ">>},
            x \in {b64Png, b64PngImage, b64Jpg, b64NotAnImage, b64Unpadded,
                   b64Invalid, <<>>}}

LegacyBeatmaps ==
    {[key |-> k, hash |-> h, date |-> x.date, custom_data |-> x.custom_data] :
        k \in {None, Some(s16af), Some(sNotHex)},
        h \in {None, Some(sHash)},
        x \in Extras}

LegacyPlaylists ==
    {[title |-> sA, author |-> None, description |-> None, maps |-> ms,
      cover |-> None, custom_data |-> c] :
        ms \in UNION {SeqsOfLen(LegacyBeatmaps, n) : n \in 0..MaxSongs},
        c \in CustomDatas}
    \cup
    {[title |-> t, author |-> a, description |-> d, maps |-> ms,
      cover |-> i, custom_data |-> c] :
        t \in {sA, sEmpty}, a \in {None, Some(sA)}, d \in {None, Some(sMultiLine)},
        ms \in {<<>>, <<[key |-> Some(s16af), hash |-> None, date |-> None,
                         custom_data |-> EmptyMap]>>},
        i \in LegacyCovers, c \in CustomDatas}

(* serde's derived Deserialize of LegacyPlaylist and LegacyBeatmap: the    *)
(* named fields are read from their renamed keys, and every entry no named *)
(* field consumed is collected by the flattened custom_data map.           *)

LEGACY_PLAYLIST_FIELDS ==
    {"playlistTitle", "playlistAuthor", "playlistDescription", "songs", "image"}
LEGACY_BEATMAP_FIELDS == {"key", "hash", "dateAdded"}

\* #[serde(flatten, default)] custom_data: Map<String, Value>
Flatten_KeepsNamed(o, fields) == o

Flatten(o, fields) == [k \in (DOMAIN o) \ fields |-> o[k]]

LegacyBeatmapJsonOk(v) ==
    /\ v.j = "obj"
    /\ OptTypeOk(v.v, "key", "str")
    /\ OptTypeOk(v.v, "hash", "str")
    /\ OptTypeOk(v.v, "dateAdded", "date")

LegacyBeatmapFromJson(v) ==
    [key |-> OptFromJson(v.v, "key"),
     hash |-> OptFromJson(v.v, "hash"),
     date |-> OptFromJson(v.v, "dateAdded"),
     custom_data |-> Flatten(v.v, LEGACY_BEATMAP_FIELDS)]

\* playlistTitle is required; songs defaults to the empty list when absent.
LegacyPlaylistJsonOk(v) ==
    /\ v.j = "obj"
    /\ Get(v.v, "playlistTitle").j = "str"
    /\ OptTypeOk(v.v, "playlistAuthor", "str")
    /\ OptTypeOk(v.v, "playlistDescription", "str")
    /\ OptTypeOk(v.v, "image", "str")
    /\ "songs" \in DOMAIN v.v =>
          /\ v.v["songs"].j = "arr"
          /\ \A i \in 1..Len(v.v["songs"].v) : LegacyBeatmapJsonOk(v.v["songs"].v[i])

LegacyPlaylistFromJson(v) ==
    [title |-> v.v["playlistTitle"].v,
     author |-> OptFromJson(v.v, "playlistAuthor"),
     description |-> OptFromJson(v.v, "playlistDescription"),
     maps |-> IF "songs" \in DOMAIN v.v
              THEN [i \in 1..Len(v.v["songs"].v) |->
                       LegacyBeatmapFromJson(v.v["songs"].v[i])]
              ELSE <<>>,
     cover |-> OptFromJson(v.v, "image"),
     custom_data |-> Flatten(v.v, LEGACY_PLAYLIST_FIELDS)]

\* serde_json::from_reader::<_, LegacyPlaylist>
from_reader(doc) ==
    IF LegacyPlaylistJsonOk(doc) THEN OkV(LegacyPlaylistFromJson(doc))
    ELSE Err([variant |-> "Json"])

(* The JSON documents the model draws from: one for every LegacyPlaylist   *)
(* above (a None field is left out), and documents with null members,      *)
(* without songs, and ones serde rejects.                                  *)

LegacyBeatmapDocument(m) ==
    JObj(Field("key", IsSome(m.key), OptToJson(m.key, "str"))
         @@ Field("hash", IsSome(m.hash), OptToJson(m.hash, "str"))
         @@ Field("dateAdded", IsSome(m.date), OptToJson(m.date, "date"))
         @@ m.custom_data)

LegacyDocument(l) ==
    JObj(("playlistTitle" :> JStr(l.title))
         @@ Field("playlistAuthor", IsSome(l.author), OptToJson(l.author, "str"))
         @@ Field("playlistDescription", IsSome(l.description),
                  OptToJson(l.description, "str"))
         @@ ("songs" :> JArr([i \in 1..Len(l.maps) |-> LegacyBeatmapDocument(l.maps[i])]))
         @@ Field("image", IsSome(l.cover), OptToJson(l.cover, "str"))
         @@ l.custom_data)

docNulls ==
    JObj(("playlistTitle" :> JStr(sA)) @@ ("playlistAuthor" :> JNull)
         @@ ("image" :> JNull) @@ ("syncURL" :> JNull)
         @@ ("songs" :> JArr(<<JObj(("key" :> JNull) @@ ("hash" :> JStr(sHash))
                                    @@ ("dateAdded" :> JNull)
                                    @@ ("songName" :> JStr(sA)))>>)))
docNoSongs == JObj(("playlistTitle" :> JStr(sA)) @@ ("syncURL" :> JStr(sA)))
docNoTitle == JObj(("songs" :> JArr(<<>>)) @@ ("syncURL" :> JStr(sA)))
docNullSongs == JObj(("playlistTitle" :> JStr(sA)) @@ ("songs" :> JNull))
docBadDate ==
    JObj(("playlistTitle" :> JStr(sA))
         @@ ("songs" :> JArr(<<JObj(("key" :> JStr(s16af))
                                    @@ ("dateAdded" :> JStr(sA)))>>)))
docNotAnObject == JArr(<<>>)

LegacyDocuments ==
    {LegacyDocument(l) : l \in LegacyPlaylists}
    \cup {docNulls, docNoSongs, docNoTitle, docNullSongs, docBadDate, docNotAnObject}

-----------------------------------------------------------------------------
(* The library: a caller holds a Playlist and validates it, writes it to   *)
(* an empty buffer and reads the buffer back; or it reads an archive that  *)
(* comes from elsewhere.                                                   *)

NoLegacy == [variant |-> "NoLegacy"]
NoDocument == [j |-> "none"]
NoConverter == fs = EmptyMap /\ workers = EmptyMap /\ opt = EmptyMap

Idle ==
    /\ vres = NotRun /\ vcover = NotRun /\ vmap = NotRun
    /\ wres = NotRun /\ rres = NotRun
    /\ legacy = NoLegacy /\ cres = [b \in BOOLEAN |-> NotRun]
    /\ document = NoDocument /\ NoConverter

InitValidate ==
    /\ playlist \in Playlists \cup OrderPlaylists
    /\ cwd \in Cwds
    /\ buffer = NoArchive /\ origin = "none"
    /\ Idle

InitCodec ==
    /\ cwd \in Cwds
    /\ \/ playlist \in Playlists /\ buffer = NoArchive /\ origin = "none"
       \/ playlist = new(sA) /\ buffer \in ForeignArchives /\ origin = "foreign"
    /\ Idle

\* playlist.validate()
DoValidate ==
    /\ vres = NotRun
    /\ vres' = Validate(playlist, cwd)
    /\ UNCHANGED <<playlist, cwd, buffer, origin, wres, rres, vcover, vmap, legacy, cres, document, convState>>

\* cover.validate() on the playlist's cover
DoValidateCover ==
    /\ vcover = NotRun
    /\ IsSome(playlist.cover)
    /\ vcover' = CoverValidate(Unwrap(playlist.cover), cwd)
    /\ UNCHANGED <<playlist, cwd, buffer, origin, wres, rres, vres, vmap, legacy, cres, document, convState>>

\* map.validate() on one of the playlist's maps
DoValidateBeatmap ==
    /\ vmap = NotRun
    /\ \E i \in 1..Len(playlist.maps) :
          vmap' = [idx |-> i, res |-> BeatmapValidate(playlist.maps[i])]
    /\ UNCHANGED <<playlist, cwd, buffer, origin, wres, rres, vres, vcover, legacy, cres, document, convState>>

\* playlist.write(&mut buffer) on an empty buffer
DoWrite ==
    /\ origin = "none"
    /\ LET out == Write(playlist, buffer, cwd)
       IN  wres' = out.res /\ buffer' = out.w
    /\ origin' = "written"
    /\ UNCHANGED <<playlist, cwd, rres, vres, vcover, vmap, legacy, cres, document, convState>>

\* Playlist::read(&mut buffer), from position 0
DoRead ==
    /\ origin \in {"written", "foreign"}
    /\ rres = NotRun
    /\ rres' = Read(buffer, cwd)
    /\ UNCHANGED <<playlist, cwd, buffer, origin, wres, vres, vcover, vmap, legacy, cres, document, convState>>

NextValidate == DoValidate \/ DoValidateCover \/ DoValidateBeatmap
SpecValidate == InitValidate /\ [][NextValidate]_vars

NextCodec == DoWrite \/ DoRead
SpecCodec == InitCodec /\ [][NextCodec]_vars

(* The converter's adapter: a legacy document is converted with and        *)
(* without its custom data.                                                *)

\* The state after serde_json::from_reader read the document; legacy stays
\* NoLegacy when the document was rejected.
InitLegacy ==
    /\ document \in LegacyDocuments
    /\ legacy = IF IsOk(from_reader(document)) THEN from_reader(document).v
                ELSE NoLegacy
    /\ playlist = new(sA) /\ cwd = {}
    /\ buffer = NoArchive /\ origin = "none"
    /\ vres = NotRun /\ vcover = NotRun /\ vmap = NotRun
    /\ wres = NotRun /\ rres = NotRun
    /\ cres = [b \in BOOLEAN |-> NotRun]
    /\ NoConverter

\* legacy_playlist.into_playlist(custom_data)
DoConvert ==
    /\ legacy # NoLegacy
    /\ \E b \in BOOLEAN :
          /\ cres[b] = NotRun
          /\ cres' = [cres EXCEPT ![b] = into_playlist(legacy, b)]
    /\ UNCHANGED <<playlist, cwd, buffer, origin, wres, rres, vres, vcover, vmap, legacy,
                   document, convState>>

NextLegacy == DoConvert
SpecLegacy == InitLegacy /\ [][NextLegacy]_vars

-----------------------------------------------------------------------------
(* src/converter/src/main.rs: the batch converter. Every path the glob     *)
(* matched is converted by convert on a worker of the thread pool; the     *)
(* workers share the file system and nothing else. A file records the      *)
(* source path of the conversion that last created or wrote it (by; the    *)
(* empty path for a file that was there before the run) and its contents.  *)

sBlist == <<"b", "l", "i", "s", "t">>
pAJson == <<"a", ".", "j", "s", "o", "n">>
pABplist == <<"a", ".", "b", "p", "l", "i", "s", "t">>
pBJson == <<"b", ".", "j", "s", "o", "n">>
pABlist == <<"a", ".", "b", "l", "i", "s", "t">>
NoPath == <<>>

\* Path::file_stem: file_name without its extension.
file_stem(p) ==
    IF IsNone(file_name(p)) THEN None
    ELSE IF IsNone(extension(p)) THEN file_name(p)
    ELSE Some(SubSeq(Unwrap(file_name(p)), 1,
                     Len(Unwrap(file_name(p))) - Len(Unwrap(extension(p))) - 1))

\* Path::with_extension, for a path that does not end in a slash.
with_extension(p, ext) ==
    IF IsNone(file_name(p)) THEN p
    ELSE SubSeq(p, 1, Len(p) - Len(Unwrap(file_name(p))))
         \o Unwrap(file_stem(p)) \o <<".">> \o ext

new_path(old_path) == with_extension(old_path, sBlist)

\* The legacy documents of the source files.
docCover ==
    JObj(("playlistTitle" :> JStr(sA))
         @@ ("image" :> JStr(PNG_B64_PREFIX \o b64PngImage)))
docBadBase64 ==
    JObj(("playlistTitle" :> JStr(sA))
         @@ ("image" :> JStr(PNG_B64_PREFIX \o b64Invalid)))
docNoIdentifier ==
    JObj(("playlistTitle" :> JStr(sA))
         @@ ("songs" :> JArr(<<JObj("songName" :> JStr(sA))>>)))
SourceDocuments == {docNulls, docCover, docBadBase64, docNoIdentifier, docNoTitle}

\* An archive that is already at a destination path before the run.
OldArchive == Write(new(sA), NoArchive, {}).w

\* The sets of paths the glob can match.
MatchSets == {{pAJson}, {pAJson, pABplist}, {pAJson, pBJson}, {pAJson, pABlist}}

Opts == [custom_data : BOOLEAN, exit_on_error : BOOLEAN, delete_converted : BOOLEAN]

NewWorker == [pc |-> "exists", legacy |-> NotRun, playlist |-> NotRun,
              wres |-> NotRun, res |-> NotRun]

\* convert, lines 52-58: the error is printed; with exit_on_error the
\* process exits, which stops every conversion still running.
Failed(self, e) ==
    [w \in DOMAIN workers |->
        IF w = self THEN [workers[w] EXCEPT !.pc = "done", !.res = Err(e)]
        ELSE IF opt.exit_on_error /\ workers[w].pc # "done"
        THEN [workers[w] EXCEPT !.pc = "killed"]
        ELSE workers[w]]

At(self, pc) == [workers EXCEPT ![self].pc = pc]

\* Lines 95-110: playlist.write(&mut writer)? then the delete_converted test.
AfterWrite_IgnoresError(res, delete_converted) ==
    IF delete_converted THEN "remove" ELSE "done"

AfterWrite(res, delete_converted) ==
    IF ~IsOk(res) THEN "failed"
    ELSE IF delete_converted THEN "remove" ELSE "done"

libState == <<playlist, cwd, vres, buffer, origin, wres, rres, vcover, vmap, legacy, cres,
              document>>

\* main, lines 119-125: the matched paths exist; a destination may exist.
InitConvert ==
    /\ opt \in Opts
    /\ \E matched \in MatchSets, pre \in SUBSET {pABlist} :
          /\ pABlist \in matched => pABlist \in pre
          /\ workers = [s \in matched |-> NewWorker]
          /\ \E docs \in [matched \ {pABlist} -> SourceDocuments] :
                fs = [f \in matched \cup pre |->
                         IF f = pABlist THEN [by |-> NoPath, data |-> OldArchive]
                         ELSE [by |-> NoPath, data |-> docs[f]]]
    /\ playlist = new(sA) /\ cwd = {}
    /\ buffer = NoArchive /\ origin = "none"
    /\ vres = NotRun /\ vcover = NotRun /\ vmap = NotRun
    /\ wres = NotRun /\ rres = NotRun
    /\ legacy = NoLegacy /\ cres = [b \in BOOLEAN |-> NotRun]
    /\ document = NoDocument


\* Lines 69-72: new_path.exists(), and the bail when it does.
CheckDestination ==
    \E self \in DOMAIN workers :
        /\ workers[self].pc = "exists"
        /\ workers' = IF new_path(self) \in DOMAIN fs
                      THEN Failed(self, [variant |-> "DestinationExists"])
                      ELSE At(self, "open")
        /\ UNCHANGED <<fs, opt, libState>>

\* Lines 85-88: File::open(old_path)? and serde_json::from_reader(..)?
ReadLegacy ==
    \E self \in DOMAIN workers :
        /\ workers[self].pc = "open"
        /\ LET r == IF self \in DOMAIN fs THEN from_reader(fs[self].data)
                    ELSE Err([variant |-> "Io"])
           IN  workers' = IF IsOk(r)
                          THEN [workers EXCEPT ![self].pc = "convert", ![self].legacy = r]
                          ELSE Failed(self, r.err)
        /\ UNCHANGED <<fs, opt, libState>>

\* Line 89: legacy_playlist.into_playlist(custom_data)?
IntoPlaylist ==
    \E self \in DOMAIN workers :
        /\ workers[self].pc = "convert"
        /\ LET r == into_playlist(workers[self].legacy.v, opt.custom_data)
           IN  workers' = IF IsOk(r)
                          THEN [workers EXCEPT ![self].pc = "create", ![self].playlist = r]
                          ELSE Failed(self, r.err)
        /\ UNCHANGED <<fs, opt, libState>>

\* Line 94: File::create(&new_path)? creates the file, or truncates the one
\* that is there.
CreateDestination ==
    \E self \in DOMAIN workers :
        /\ workers[self].pc = "create"
        /\ fs' = (new_path(self) :> [by |-> self, data |-> NoArchive]) @@ fs
        /\ workers' = At(self, "write")
        /\ UNCHANGED <<opt, libState>>

\* Lines 95-110: playlist.write(&mut writer)? through the handle opened at
\* position 0; nothing reaches the file when validation fails.
WritePlaylist ==
    \E self \in DOMAIN workers :
        /\ workers[self].pc = "write"
        /\ LET out == Write(workers[self].playlist.v, NoArchive, DOMAIN fs)
               next == AfterWrite(out.res, opt.delete_converted)
           IN  /\ fs' = IF IsOk(out.res)
                        THEN (new_path(self) :> [by |-> self, data |-> out.w]) @@ fs
                        ELSE fs
               /\ workers' =
                     IF next = "failed"
                     THEN [w \in DOMAIN workers |->
                              IF w = self
                              THEN [Failed(self, out.res.err)[w] EXCEPT !.wres = out.res]
                              ELSE Failed(self, out.res.err)[w]]
                     ELSE [workers EXCEPT ![self].pc = next, ![self].wres = out.res,
                                          ![self].res = IF next = "done" THEN Ok ELSE NotRun]
        /\ UNCHANGED <<opt, libState>>

\* Lines 105-111: fs::remove_file(old_path)?, then Ok(()).
RemoveSource ==
    \E self \in DOMAIN workers :
        /\ workers[self].pc = "remove"
        /\ fs' = [f \in DOMAIN fs \ {self} |-> fs[f]]
        /\ workers' = [workers EXCEPT ![self].pc = "done", ![self].res = Ok]
        /\ UNCHANGED <<opt, libState>>

\* convert_inner on the workers of paths.par_iter(): each step is taken by
\* one of the conversions, in any order.
NextConvert ==
    \/ CheckDestination
    \/ ReadLegacy
    \/ IntoPlaylist
    \/ CreateDestination
    \/ WritePlaylist
    \/ RemoveSource

SpecConvert == InitConvert /\ [][NextConvert]_vars

-----------------------------------------------------------------------------
(* The claims.                                                             *)

\* What the claims say of strings, stated without the code's helpers.
SingleLineNonEmpty(s) ==
    Len(s) > 0 /\ \A i \in 1..Len(s) : s[i] # "\n" /\ s[i] # "\r"
AllHex(s) == \A i \in 1..Len(s) : s[i] \in AsciiHexDigits
StartsWith(data, magic) ==
    Len(data) >= Len(magic) /\ \A i \in 1..Len(magic) : data[i] = magic[i]

\* C1: a playlist that passes validate() is written successfully, and reading
\* the written buffer gives back a playlist equal to it in every field.
C1_RoundTrip ==
    (origin = "written" /\ IsOk(Validate(playlist, cwd))) =>
        /\ IsOk(wres)
        /\ rres # NotRun => rres = OkV(playlist)

\* C1 witness: a one-track playlist with difficulties, a date and custom data
\* was written and read back.
C1_Witness ==
    /\ origin = "written" /\ IsOk(wres) /\ IsOk(rres)
    /\ Len(playlist.maps) = 1
    /\ playlist.maps[1].difficulties # <<>>
    /\ DOMAIN playlist.maps[1].custom_data # {}
    /\ IsSome(playlist.maps[1].date)

\* C2: writing a playlist that fails validate() returns the validation error
\* and leaves the writer as it was, with nothing written to it.
C2_InvalidNeverPersisted ==
    (wres # NotRun /\ ~IsOk(Validate(playlist, cwd))) =>
        /\ wres = Validate(playlist, cwd)
        /\ wres.err.variant = "Validation"
        /\ buffer = NoArchive

\* C2 witness: a write of a playlist with an invalid track failed.
C2_Witness ==
    /\ wres # NotRun /\ ~IsOk(wres)
    /\ playlist.maps # <<>>
    /\ str_is_empty_or_has_newlines(playlist.title) = FALSE

\* The manifest of the buffer names a cover.
ManifestNamesCover ==
    /\ HasEntry(buffer, sPlaylistJson)
    /\ by_name(buffer, sPlaylistJson).text = "json"
    /\ Get(by_name(buffer, sPlaylistJson).doc, "cover").j = "str"

\* C3: a playlist that read returns passes the full validate(), and when the
\* manifest names a cover the returned playlist has a cover, whose type is
\* known and which passes the cover validation.
C3_ReadValidates ==
    IsOk(rres) =>
        /\ IsOk(Validate(rres.v, cwd))
        /\ ManifestNamesCover =>
              /\ IsSome(rres.v.cover)
              /\ Unwrap(rres.v.cover).ty # "Unknown"
              /\ IsOk(CoverValidate(Unwrap(rres.v.cover), cwd))

\* C3 witness: a read of an archive from elsewhere returned a playlist with
\* a track.
C3_Witness ==
    origin = "foreign" /\ IsOk(rres) /\ rres.v.maps # <<>>

\* A cover as C4 describes it.
WellFormedCover(c) ==
    \/ c.ty = "Png" /\ c.path = sCoverPng /\ StartsWith(c.data, PNG_MAGIC_NUMBER)
    \/ c.ty = "Jpg" /\ c.path \in {sCoverJpg, sCoverJpeg}
       /\ StartsWith(c.data, JPG_MAGIC_NUMBER)

\* C4: a well-formed cover passes Cover.validate(), and a playlist with a
\* valid title and such a cover passes validate(), whether or not a file of
\* the cover's name exists in the working directory.
C4_WellFormedCoverPasses ==
    (IsSome(playlist.cover) /\ WellFormedCover(Unwrap(playlist.cover))) =>
        /\ vcover # NotRun => IsOk(vcover)
        /\ (vres # NotRun /\ SingleLineNonEmpty(playlist.title)) => IsOk(vres)

\* A cover C5 says must fail.
ExtensionMatches(c) ==
    /\ IsSome(extension(c.path))
    /\ \/ c.ty = "Png" /\ Unwrap(extension(c.path)) = sPng
       \/ c.ty = "Jpg" /\ Unwrap(extension(c.path)) \in {sJpg, sJpeg}
SignatureMatches(c) ==
    \/ c.ty = "Png" /\ StartsWith(c.data, PNG_MAGIC_NUMBER)
    \/ c.ty = "Jpg" /\ StartsWith(c.data, JPG_MAGIC_NUMBER)
MalformedCover(c) ==
    \/ c.ty = "Unknown"
    \/ \E i \in 1..Len(c.path) : c.path[i] = "/"
    \/ ~ExtensionMatches(c)
    \/ ~SignatureMatches(c)

\* C5: Cover.validate() fails for a cover of unknown type, with a directory
\* in its path, without the extension of its type or without the signature
\* of its type; Playlist.validate() fails whenever its cover fails.
C5_MalformedCoverFails ==
    IsSome(playlist.cover) =>
        /\ (vcover # NotRun /\ MalformedCover(Unwrap(playlist.cover))) => IsErr(vcover)
        /\ (vcover # NotRun /\ vres # NotRun /\ IsErr(vcover)) => IsErr(vres)

\* C5 witness: a JPEG cover with the right bytes at a nested path that exists
\* failed, and so did the playlist.
C5_Witness ==
    /\ IsSome(playlist.cover)
    /\ Unwrap(playlist.cover) = [path |-> sSubCoverJpg, data |-> JpgImage, ty |-> "Jpg"]
    /\ sSubCoverJpg \in cwd
    /\ IsErr(vcover) /\ IsErr(vres)
    /\ SingleLineNonEmpty(playlist.title)

\* C6: without cover and tracks, validate() succeeds exactly when the title
\* is non-empty and single-line, the author (if any) is too, and the
\* description (if any) is non-empty.
C6_HeaderValidation ==
    (vres # NotRun /\ IsNone(playlist.cover) /\ playlist.maps = <<>>) =>
        (IsOk(vres) <=>
            /\ SingleLineNonEmpty(playlist.title)
            /\ IsSome(playlist.author) => SingleLineNonEmpty(Unwrap(playlist.author))
            /\ IsSome(playlist.description) => Len(Unwrap(playlist.description)) > 0)

\* C6 witness: a playlist with an author and a multi-line description passed.
C6_Witness ==
    /\ IsOk(vres) /\ IsNone(playlist.cover) /\ playlist.maps = <<>>
    /\ IsSome(playlist.author)
    /\ playlist.description = Some(sMultiLine)

\* The identifier rules of C7.
KeyRule(o) == IsSome(o) /\ Len(Unwrap(o)) > 0 /\ AllHex(Unwrap(o))
HashRule(o) == IsSome(o) /\ Len(Unwrap(o)) = 40 /\ AllHex(Unwrap(o))
LevelIdRule(o) == IsSome(o) /\ SingleLineNonEmpty(Unwrap(o))
DeclaredRule(m) ==
    CASE m.ty = "key" -> KeyRule(m.key)
      [] m.ty = "hash" -> HashRule(m.hash)
      [] OTHER -> LevelIdRule(m.level_id)
OnlyDeclaredPopulated(m) ==
    CASE m.ty = "key" -> IsNone(m.hash) /\ IsNone(m.level_id)
      [] m.ty = "hash" -> IsNone(m.key) /\ IsNone(m.level_id)
      [] OTHER -> IsNone(m.key) /\ IsNone(m.hash)

\* The track the last Beatmap::validate was applied to.
Validated == playlist.maps[vmap.idx]

\* C7: a track passes validate only if the identifier of its kind follows
\* its rule (hash: 40 hex digits; key: non-empty hex; level_id: non-empty
\* and single-line); a track without difficulties whose only identifier is
\* that of its kind and follows the rule passes.
C7_IdentifierFormat ==
    vmap # NotRun =>
        /\ IsOk(vmap.res) => DeclaredRule(Validated)
        /\ (Validated.difficulties = <<>> /\ OnlyDeclaredPopulated(Validated)
            /\ DeclaredRule(Validated)) => IsOk(vmap.res)

\* C7 witness: a track of kind hash with a 40-digit hash passed.
C7_Witness ==
    /\ vmap # NotRun /\ IsOk(vmap.res)
    /\ Validated.ty = "hash" /\ Validated.hash = Some(sHash)
    /\ OnlyDeclaredPopulated(Validated)

\* The tracks that differ from m in the two identifiers that are not of its
\* kind only.
Variants(m) ==
    CASE m.ty = "key" ->
            {[m EXCEPT !.hash = h, !.level_id = l] : h \in Hashes, l \in LevelIds}
      [] m.ty = "hash" ->
            {[m EXCEPT !.key = k, !.level_id = l] : k \in Keys, l \in LevelIds}
      [] OTHER ->
            {[m EXCEPT !.key = k, !.hash = h] : k \in Keys, h \in Hashes}

\* C8 as claimed: validate gives the same outcome for all tracks that agree
\* on kind, on the identifier of that kind and on difficulties, whatever
\* the other two identifiers hold.
C8_OnlyDeclaredIdentifierValidated ==
    vmap # NotRun =>
        \A m2 \in Variants(Validated) : IsOk(BeatmapValidate(m2)) = IsOk(vmap.res)

\* The identifiers that are not of the track's kind are absent or follow
\* their rules.
OthersWellFormed(m) ==
    /\ (m.ty # "key" /\ IsSome(m.key)) => KeyRule(m.key)
    /\ (m.ty # "hash" /\ IsSome(m.hash)) => HashRule(m.hash)
    /\ (m.ty # "levelID" /\ IsSome(m.level_id)) => LevelIdRule(m.level_id)

\* C8 as amended: every populated identifier is format-checked, so a track
\* with a malformed identifier of another kind fails; among the tracks whose
\* other identifiers are absent or well-formed, the outcome depends on the
\* kind, the identifier of that kind and the difficulties only.
C8_EveryPopulatedIdentifierValidated ==
    vmap # NotRun =>
        /\ ~OthersWellFormed(Validated) => IsErr(vmap.res)
        /\ OthersWellFormed(Validated) =>
              \A m2 \in Variants(Validated) :
                  OthersWellFormed(m2) => IsOk(BeatmapValidate(m2)) = IsOk(vmap.res)

\* C8 witness: the track of kind key with key 16af and hash deadbeef failed.
C8_Witness ==
    /\ vmap # NotRun /\ IsErr(vmap.res)
    /\ Validated.ty = "key" /\ Validated.key = Some(s16af)
    /\ Validated.hash = Some(sDeadbeef) /\ IsNone(Validated.level_id)
    /\ Validated.difficulties = <<>>

\* The conversions of the legacy document that have run and succeeded.
Converted == {b \in BOOLEAN : cres[b] # NotRun /\ IsOk(cres[b])}

\* C9: every song becomes the track at the same index, of kind key if it has
\* a key, else hash if it has a hash, else levelID without a level_id; key,
\* hash and date are copied and the difficulties are empty.
C9_LegacyTrackInference ==
    \A b \in Converted :
        /\ Len(cres[b].v.maps) = Len(legacy.maps)
        /\ \A i \in 1..Len(legacy.maps) :
              LET song == legacy.maps[i]
                  m == cres[b].v.maps[i]
              IN  /\ IsSome(song.key) => m.ty = "key"
                  /\ (IsNone(song.key) /\ IsSome(song.hash)) => m.ty = "hash"
                  /\ (IsNone(song.key) /\ IsNone(song.hash)) =>
                        m.ty = "levelID" /\ IsNone(m.level_id)
                  /\ m.key = song.key /\ m.hash = song.hash /\ m.date = song.date
                  /\ m.difficulties = <<>>

\* C9 witness: a document of two different songs, the first with key and
\* hash, the second with a hash only, was converted.
C9_Witness ==
    /\ Converted # {}
    /\ Len(legacy.maps) = 2
    /\ IsSome(legacy.maps[1].key) /\ IsSome(legacy.maps[1].hash)
    /\ IsNone(legacy.maps[2].key) /\ IsSome(legacy.maps[2].hash)
    /\ IsSome(legacy.maps[2].date) /\ IsNone(legacy.maps[1].date)

\* The image is a base64 string without a data-URI prefix.
BareBase64(c) ==
    /\ ~StartsWith(c, PNG_B64_PREFIX)
    /\ ~StartsWith(c, JPG_B64_PREFIX)
    /\ ~StartsWith(c, JPEG_B64_PREFIX)
    /\ IsOk(Base64Decode(c))

\* C10: a bare base64 image is sniffed: the conversion succeeds, with a PNG
\* cover when the decoded bytes begin with the PNG signature, a JPEG cover
\* when they begin with the JPEG signature, and no cover otherwise.
C10_BareBase64Sniffed ==
    \A b \in BOOLEAN :
        (cres[b] # NotRun /\ IsSome(legacy.cover) /\ BareBase64(Unwrap(legacy.cover))) =>
            LET bytes == Base64Decode(Unwrap(legacy.cover)).v
            IN  /\ IsOk(cres[b])
                /\ StartsWith(bytes, PNG_MAGIC_NUMBER) =>
                      /\ IsSome(cres[b].v.cover)
                      /\ Unwrap(cres[b].v.cover).ty = "Png"
                /\ StartsWith(bytes, JPG_MAGIC_NUMBER) =>
                      /\ IsSome(cres[b].v.cover)
                      /\ Unwrap(cres[b].v.cover).ty = "Jpg"
                /\ (~StartsWith(bytes, PNG_MAGIC_NUMBER)
                    /\ ~StartsWith(bytes, JPG_MAGIC_NUMBER)) => IsNone(cres[b].v.cover)

\* The image is the prefix, then n spaces, then a payload that does not begin
\* with a space.
HasPayload(c, prefix, n) ==
    /\ StartsWith(c, prefix)
    /\ Len(c) >= Len(prefix) + n
    /\ \A i \in 1..n : c[Len(prefix) + i] = " "
    /\ Len(c) > Len(prefix) + n => c[Len(prefix) + n + 1] # " "
PayloadOf(c, prefix, n) == SubSeq(c, Len(prefix) + n + 1, Len(c))

\* What C11 says of an image with one of the prefixes: the cover has the path
\* and the kind of the prefix and the decoded payload as its bytes.
DataUriCover(r, c, prefix, path, ty) ==
    \A n \in 0..Len(c) :
        (HasPayload(c, prefix, n) /\ IsOk(Base64Decode(PayloadOf(c, prefix, n)))) =>
            /\ IsOk(r)
            /\ r.v.cover = Some([path |-> path,
                                 data |-> Base64Decode(PayloadOf(c, prefix, n)).v,
                                 ty |-> ty])

\* C11: an image that is a data-URI prefix, optional spaces and valid base64
\* converts to a playlist whose cover is cover.png of kind PNG for the png
\* prefix, cover.jpg of kind JPEG for the jpg and jpeg prefixes, with the
\* decoded payload as its bytes, whatever signature the bytes carry.
C11_DataUriCover ==
    \A b \in BOOLEAN :
        (cres[b] # NotRun /\ IsSome(legacy.cover)) =>
            LET c == Unwrap(legacy.cover)
            IN  /\ DataUriCover(cres[b], c, PNG_B64_PREFIX, sCoverPng, "Png")
                /\ DataUriCover(cres[b], c, JPG_B64_PREFIX, sCoverJpg, "Jpg")
                /\ DataUriCover(cres[b], c, JPEG_B64_PREFIX, sCoverJpg, "Jpg")

\* C11 witness: the png prefix, a space and the base64 of the JPEG signature
\* were converted to a PNG cover.
C11_Witness ==
    /\ legacy # NoLegacy
    /\ legacy.cover = Some(PNG_B64_PREFIX \o <<" ">> \o b64Jpg)
    /\ cres[TRUE] # NotRun /\ IsOk(cres[TRUE])
    /\ cres[TRUE].v.cover =
          Some([path |-> sCoverPng, data |-> JPG_MAGIC_NUMBER, ty |-> "Png"])

\* What C12 compares, stated on the JSON text of the legacy document.
UnrecognizedFields(o, named) == [k \in {x \in DOMAIN o : x \notin named} |-> o[k]]
SongsOf(doc) == IF "songs" \in DOMAIN doc.v THEN doc.v["songs"].v ELSE <<>>
SameTrack(a, b) ==
    /\ a.ty = b.ty
    /\ a.key = b.key /\ a.hash = b.hash /\ a.level_id = b.level_id
    /\ a.date = b.date
    /\ a.difficulties = b.difficulties

\* C12: converting the same legacy document with and without
\* preserve_custom_data gives the same outcome, and on success two playlists
\* with the same title, author, description, cover and, per track, kind,
\* identifiers, date and difficulties; without preservation every custom_data
\* is empty, with preservation the playlist's custom_data is exactly the
\* unrecognized top-level fields of the document and each track's custom_data
\* exactly the unrecognized fields of its song.
C12_CustomDataToggle ==
    (cres[TRUE] # NotRun /\ cres[FALSE] # NotRun) =>
        /\ IsOk(cres[TRUE]) <=> IsOk(cres[FALSE])
        /\ IsOk(cres[TRUE]) =>
              LET on == cres[TRUE].v
                  off == cres[FALSE].v
                  songs == SongsOf(document)
              IN  /\ on.title = off.title /\ on.author = off.author
                  /\ on.description = off.description /\ on.cover = off.cover
                  /\ Len(on.maps) = Len(songs) /\ Len(off.maps) = Len(songs)
                  /\ \A i \in 1..Len(songs) :
                        /\ SameTrack(on.maps[i], off.maps[i])
                        /\ off.maps[i].custom_data = EmptyMap
                        /\ on.maps[i].custom_data =
                              UnrecognizedFields(songs[i].v, {"key", "hash", "dateAdded"})
                  /\ off.custom_data = EmptyMap
                  /\ on.custom_data =
                        UnrecognizedFields(document.v,
                            {"playlistTitle", "playlistAuthor", "playlistDescription",
                             "songs", "image"})

C12_Witness ==
    /\ document = docNulls
    /\ IsOk(cres[TRUE]) /\ IsOk(cres[FALSE])
    /\ cres[TRUE].v.custom_data = ("syncURL" :> JNull)
    /\ cres[TRUE].v.maps[1].custom_data = ("songName" :> JStr(sA))
    /\ cres[FALSE].v.custom_data = EmptyMap
    /\ cres[FALSE].v.maps[1].custom_data = EmptyMap

\* C13: the batch converter never overwrites or truncates an existing
\* destination file: in every step of every interleaving of the workers, a
\* file at the destination path of a matched source keeps its contents unless
\* the step is taken by the conversion that created the file.
C13_NeverOverwrites ==
    [][\A s \in DOMAIN workers :
          new_path(s) \in DOMAIN fs =>
              /\ new_path(s) \in DOMAIN fs'
              /\ \/ fs'[new_path(s)].data = fs[new_path(s)].data
                 \/ fs'[new_path(s)].by = fs[new_path(s)].by]_vars

\* C14: a source file is absent only when delete_converted is set and its
\* conversion read the document, converted it and wrote the archive
\* successfully; a conversion that ended in an error leaves its source in
\* place, and without the flag every source stays.
C14_DeletionFollowsSuccess ==
    \A s \in DOMAIN workers :
        /\ s \notin DOMAIN fs =>
              /\ opt.delete_converted
              /\ IsOk(workers[s].legacy) /\ IsOk(workers[s].playlist)
              /\ IsOk(workers[s].wres)
              /\ workers[s].pc = "done" /\ IsOk(workers[s].res)
        /\ (workers[s].pc = "done" /\ IsErr(workers[s].res)) => s \in DOMAIN fs
        /\ ~opt.delete_converted => s \in DOMAIN fs

C14_Witness ==
    /\ opt.delete_converted
    /\ DOMAIN workers = {pAJson, pBJson}
    /\ pAJson \notin DOMAIN fs
    /\ pABlist \in DOMAIN fs /\ fs[pABlist].by = pAJson /\ fs[pABlist].data.finished
    /\ workers[pBJson].pc = "done" /\ IsErr(workers[pBJson].wres)
    /\ pBJson \in DOMAIN fs

\* C16: a conversion that ended in an error has left no destination file of
\* its own making.
C16_NoLeftoverDestination ==
    \A s \in DOMAIN workers :
        (workers[s].pc = "done" /\ IsErr(workers[s].res)) =>
            ~(new_path(s) \in DOMAIN fs /\ fs[new_path(s)].by = s)

\* The checks C15 orders, stated without the code's helpers.
DeclaredAbsent(m) ==
    CASE m.ty = "key" -> IsNone(m.key)
      [] m.ty = "hash" -> IsNone(m.hash)
      [] OTHER -> IsNone(m.level_id)
BadDifficulties(m) ==
    {i \in 1..Len(m.difficulties) :
        \/ ~SingleLineNonEmpty(m.difficulties[i].name)
        \/ ~SingleLineNonEmpty(m.difficulties[i].characteristic)}
KeyBad(m) == IsSome(m.key) /\ ~KeyRule(m.key)
HashBad(m) == IsSome(m.hash) /\ ~HashRule(m.hash)
LevelIdBad(m) == IsSome(m.level_id) /\ ~LevelIdRule(m.level_id)
TrackInvalid(m) ==
    DeclaredAbsent(m) \/ BadDifficulties(m) # {} \/ KeyBad(m) \/ HashBad(m) \/ LevelIdBad(m)
InvalidTracks(p) == {i \in 1..Len(p.maps) : TrackInvalid(p.maps[i])}
Least(S) == CHOOSE i \in S : \A j \in S : i <= j
IsInvalidField(e, field) == e.variant = "InvalidField" /\ e.field = field

\* The error C15 expects of an invalid track m.
FirstTrackError(m, e) ==
    IF DeclaredAbsent(m) THEN e.variant = "MismatchedType"
    ELSE IF BadDifficulties(m) # {}
    THEN /\ e.variant = "InvalidDifficulty"
         /\ e.idx = Least(BadDifficulties(m)) - 1
         /\ IF ~SingleLineNonEmpty(m.difficulties[Least(BadDifficulties(m))].name)
            THEN IsInvalidField(e.error, "name")
            ELSE IsInvalidField(e.error, "characteristic")
    ELSE IF KeyBad(m) THEN IsInvalidField(e, "key")
    ELSE IF HashBad(m) THEN IsInvalidField(e, "hash")
    ELSE IsInvalidField(e, "levelID")

\* C15: validate returns the error of the first failing check in the order
\* title, author, description (empty), cover, then the invalid track of
\* smallest index; within a track: identifier of the declared kind absent,
\* then the difficulty of smallest index (name before characteristic), then
\* the format of key, hash and level_id in this order.
C15_FailFastOrder ==
    vres # NotRun =>
        IF ~SingleLineNonEmpty(playlist.title)
        THEN IsErr(vres) /\ IsInvalidField(vres.err.error, "title")
        ELSE IF IsSome(playlist.author) /\ ~SingleLineNonEmpty(Unwrap(playlist.author))
        THEN IsErr(vres) /\ IsInvalidField(vres.err.error, "author")
        ELSE IF IsSome(playlist.description) /\ Unwrap(playlist.description) = <<>>
        THEN IsErr(vres) /\ IsInvalidField(vres.err.error, "description")
        ELSE IF IsSome(playlist.cover)
                /\ ~IsOk(CoverValidate(Unwrap(playlist.cover), cwd))
        THEN IsErr(vres) /\ vres.err.error.variant = "InvalidCover"
        ELSE IF InvalidTracks(playlist) # {}
        THEN /\ IsErr(vres) /\ vres.err.error.variant = "InvalidBeatmap"
             /\ vres.err.error.idx = Least(InvalidTracks(playlist)) - 1
             /\ FirstTrackError(playlist.maps[Least(InvalidTracks(playlist))],
                                vres.err.error.error)
        ELSE IsOk(vres)

\* C15 witness: the only track has no identifier of its kind, an invalid
\* difficulty and a malformed key, and the mismatched type is reported.
C15_Witness ==
    /\ vres # NotRun /\ IsErr(vres)
    /\ Len(playlist.maps) = 1
    /\ DeclaredAbsent(playlist.maps[1])
    /\ BadDifficulties(playlist.maps[1]) # {}
    /\ KeyBad(playlist.maps[1])
    /\ vres.err.error.variant = "InvalidBeatmap"
    /\ vres.err.error.error.variant = "MismatchedType"

====
